---- MODULE Spec2Model ----
(***************************************************************************)
(* A model of skiller (src/skiller/skiller.py): the manifest parser, the   *)
(* display-path normaliser, the directory scans and the installer.         *)
(*                                                                         *)
(* Text is a sequence of one-character strings.  A path is a sequence of   *)
(* components; the first component "/" marks an absolute path and "~" the  *)
(* home shorthand.  The filesystem maps the absolute location of every     *)
(* existing entry (a sequence of names below the root <<>>) to its node.   *)
(***************************************************************************)
EXTENDS Integers, Sequences, FiniteSets, TLC

VARIABLES
    fs,        \* the filesystem: location -> node
    config,    \* the loaded configuration (read-only after load)
    pc,        \* where the running command is
    call,      \* the operation that ran last, with its inputs and its result
    out,       \* the lines printed by the running command, in order
    queue,     \* install flow: the (agent, path kind, target) steps still to do
    sel,       \* install flow: the chosen candidate
    flags,     \* install flow: installed_any / had_targets
    done,      \* history: the (source, root) pairs an install returned "installed" for
    runs       \* number of commands started so far

vars == <<fs, config, pc, call, out, queue, sel, flags, done, runs>>

----------------------------------------------------------------------------
(* Text helpers: str.startswith, str.find, slicing, str.replace.           *)

NL == "\n"

startswith(s, p) ==
    /\ Len(s) >= Len(p)
    /\ SubSeq(s, 1, Len(p)) = p

\* str.find(sub, start): the least 0-based index i >= start at which sub
\* occurs in s, or -1.
find(s, sub, start) ==
    LET hits == {i \in start..(Len(s) - Len(sub)) :
                    SubSeq(s, i + 1, i + Len(sub)) = sub}
    IN  IF hits = {} THEN -1
        ELSE CHOOSE i \in hits : \A j \in hits : i <= j

\* s[a:b] of Python, for 0 <= a.
slice(s, a, b) == SubSeq(s, a + 1, IF b > Len(s) THEN Len(s) ELSE b)

\* str.replace("\n", " ")
replace_newlines(s) == [i \in 1..Len(s) |-> IF s[i] = NL THEN " " ELSE s[i]]

RECURSIVE Flatten(_)
Flatten(ss) == IF ss = <<>> THEN <<>> ELSE Head(ss) \o Flatten(Tail(ss))

----------------------------------------------------------------------------
(* Filesystem.                                                             *)

DirNode  == [kind |-> "dir",  ok |-> TRUE,  data |-> <<>>]
DeniedDir == [kind |-> "dir", ok |-> FALSE, data |-> <<>>]
\* A directory whose listing fails with an OSError that is no PermissionError
\* (EIO on a failing disk, ESTALE on a stale network mount).
BrokenDir == [kind |-> "dir", ok |-> TRUE, data |-> <<"EIO">>]
FileNode(text) == [kind |-> "file", ok |-> TRUE, data |-> text]
DeniedFile(text) == [kind |-> "file", ok |-> FALSE, data |-> text]

Cwd == <<"w">>          \* os.getcwd()
HomeDir == <<"h">>      \* the home directory "~" stands for
Bad == <<"?">>          \* no such location (ENOENT / ENOTDIR)

IsAbs(p) == p # <<>> /\ Head(p) = "/"

Front(s) == SubSeq(s, 1, Len(s) - 1)
Last(s) == s[Len(s)]

\* os.path.expanduser: a leading "~" becomes the home directory.
expanduser(p) ==
    IF p # <<>> /\ Head(p) = "~" THEN <<"/">> \o HomeDir \o Tail(p) ELSE p

\* os.path.join(a, b)
join(a, b) == IF IsAbs(b) THEN b ELSE a \o b

\* os.path.basename
basename(p) == IF p = <<>> \/ p = <<"/">> THEN "" ELSE Last(p)

\* os.path.normpath on the components below the root: "." dropped, ".."
\* removes the component before it (and is dropped at the root).
RECURSIVE Norm(_, _)
Norm(rest, acc) ==
    IF rest = <<>> THEN acc
    ELSE LET c == Head(rest) IN
         Norm(Tail(rest),
              IF c = "." THEN acc
              ELSE IF c = ".." THEN (IF acc = <<>> THEN acc ELSE Front(acc))
              ELSE Append(acc, c))

\* os.path.abspath: join with the working directory, then normpath.  The
\* result is a location (the names below the root).
abspath(p) == Norm(IF IsAbs(p) THEN Tail(p) ELSE Cwd \o p, <<>>)

IsDirAt(f, k) == k \in DOMAIN f /\ f[k].kind = "dir"

\* The kernel's path walk: every component is looked up in a directory that
\* must exist.  Gives the location the path names (existing or not), or Bad.
RECURSIVE Walk(_, _, _)
Walk(f, rest, cur) ==
    IF rest = <<>> THEN cur
    ELSE IF ~IsDirAt(f, cur) THEN Bad
    ELSE LET c == Head(rest) IN
         Walk(f, Tail(rest),
              IF c = "." THEN cur
              ELSE IF c = ".." THEN (IF cur = <<>> THEN cur ELSE Front(cur))
              ELSE Append(cur, c))

Resolve(f, p) == IF IsAbs(p) THEN Walk(f, Tail(p), <<>>) ELSE Walk(f, Cwd \o p, <<>>)

exists(f, p) == Resolve(f, p) \in DOMAIN f
isdir(f, p)  == exists(f, p) /\ f[Resolve(f, p)].kind = "dir"
isfile(f, p) == exists(f, p) /\ f[Resolve(f, p)].kind = "file"

----------------------------------------------------------------------------
(* Manifest parser.                                                        *)

\* A line body "key: value" is one symbol of the text.
\* A text of n characters.
Chars_x(n) == [i \in 1..n |-> "x"]

\* The "description: ..." lines: a one-character text, a double-quoted text
\* with an escaped newline, and texts of the display lengths of the views
\* and one character more.
DescriptionSyms ==
    {"description: d", "description: \"a\\nb\"", "description: x*80",
     "description: x*81", "description: x*120", "description: x*121"}

DescriptionOf(sym) ==
    CASE sym = "description: d" -> <<"d">>
      [] sym = "description: \"a\\nb\"" -> <<"a", NL, "b">>
      [] sym = "description: x*80" -> Chars_x(80)
      [] sym = "description: x*81" -> Chars_x(81)
      [] sym = "description: x*120" -> Chars_x(120)
      [] sym = "description: x*121" -> Chars_x(121)

KeyOf(sym) ==
    CASE sym \in {"name: foo", "name: bar"} -> "name"
      [] sym \in DescriptionSyms -> "description"
      [] sym = "other: x" -> "other"
      [] OTHER -> ""

ValOf(sym) ==
    CASE sym = "name: foo" -> "foo"
      [] sym = "name: bar" -> "bar"
      [] sym \in DescriptionSyms -> DescriptionOf(sym)
      [] OTHER -> "x"

KVSyms == {"name: foo", "name: bar", "other: x"} \cup DescriptionSyms

\* str.split("\n")
RECURSIVE SplitLines(_, _)
SplitLines(s, acc) ==
    IF s = <<>> THEN <<acc>>
    ELSE IF Head(s) = NL THEN <<acc>> \o SplitLines(Tail(s), <<>>)
    ELSE SplitLines(Tail(s), Append(acc, Head(s)))

SelectNonBlank(ls) == SelectSeq(ls, LAMBDA l : l # <<>>)

\* yaml.safe_load on the frontmatter text: a mapping when the text is one or
\* more "key: value" lines (blank lines and one leading "---" document
\* marker aside), the empty mapping for the flow mapping "{}"; a parse error
\* on malformed text ("!" stands for an unbalanced bracket); any other value
\* (None, a scalar, a list) otherwise.
yaml_safe_load(text) ==
    LET ls0 == SelectNonBlank(SplitLines(text, <<>>))
        ls  == IF ls0 # <<>> /\ Head(ls0) = <<"-", "-", "-">> THEN Tail(ls0) ELSE ls0
        isKV(l) == Len(l) = 1 /\ l[1] \in KVSyms
        keys == {KeyOf(ls[i][1]) : i \in 1..Len(ls)}
        lastOf(k) == CHOOSE i \in 1..Len(ls) :
                        /\ KeyOf(ls[i][1]) = k
                        /\ \A j \in 1..Len(ls) : KeyOf(ls[j][1]) = k => j <= i
    IN  IF \E i \in 1..Len(text) : text[i] = "!" THEN [kind |-> "raise", map |-> <<>>]
        ELSE IF ls = <<(<<"{}">>)>> THEN [kind |-> "map", map |-> <<>>]
        ELSE IF ls # <<>> /\ \A i \in 1..Len(ls) : isKV(ls[i])
             THEN [kind |-> "map", map |-> [k \in keys |-> ValOf(ls[lastOf(k)][1])]]
        ELSE [kind |-> "other", map |-> <<>>]

None == [kind |-> "none", map |-> <<>>]

OpenDelim == <<"-", "-", "-", NL>>
CloseDelim == <<NL, "-", "-", "-", NL>>
OpenLen == 4

\* parse_frontmatter without the test for the opening delimiter.
parse_frontmatter_no_open_test(f, file_path) ==
    IF ~(isfile(f, file_path) /\ f[Resolve(f, file_path)].ok) THEN None
    ELSE LET content == f[Resolve(f, file_path)].data
             end_pos == find(content, CloseDelim, OpenLen)
         IN  IF end_pos = -1 THEN None
             ELSE LET parsed == yaml_safe_load(slice(content, OpenLen, end_pos)) IN
                  IF parsed.kind = "map" THEN parsed ELSE None

\* parse_frontmatter(file_path) on filesystem f: the parsed mapping, or None.
parse_frontmatter(f, file_path) ==
    IF ~(isfile(f, file_path) /\ f[Resolve(f, file_path)].ok) THEN None   \* open() raises
    ELSE LET content == f[Resolve(f, file_path)].data IN
         IF ~startswith(content, OpenDelim) THEN None
         ELSE LET end_pos == find(content, CloseDelim, OpenLen) IN
              IF end_pos = -1 THEN None
              ELSE LET parsed == yaml_safe_load(slice(content, OpenLen, end_pos)) IN
                   IF parsed.kind = "map" THEN parsed ELSE None

----------------------------------------------------------------------------
(* Path normaliser.                                                        *)

\* The characters of a path component.  Names other than the dot names are
\* one symbol each (a run of characters that holds no "/" and does not
\* start with ".").
Chars(c) ==
    CASE c = "."   -> <<".">>
      [] c = ".."  -> <<".", ".">>
      [] c = "..x" -> <<".", ".", "x">>
      [] OTHER     -> <<c>>

\* "/".join(components) as text
RECURSIVE JoinSlash(_)
JoinSlash(cs) ==
    IF cs = <<>> THEN <<>>
    ELSE IF Len(cs) = 1 THEN Chars(cs[1])
    ELSE Chars(Head(cs)) \o <<"/">> \o JoinSlash(Tail(cs))

\* len(os.path.commonprefix([a, b])) on component lists
RECURSIVE CommonLen(_, _)
CommonLen(a, b) ==
    IF a = <<>> \/ b = <<>> \/ Head(a) # Head(b) THEN 0
    ELSE 1 + CommonLen(Tail(a), Tail(b))

\* os.path.relpath(path, start) as a component list (<<".">> for the start
\* itself).
relpath_list(path, start) ==
    LET start_list == abspath(start)
        path_list  == abspath(path)
        i == CommonLen(start_list, path_list)
        rel_list == [j \in 1..(Len(start_list) - i) |-> ".."]
                    \o SubSeq(path_list, i + 1, Len(path_list))
    IN  IF rel_list = <<>> THEN <<".">> ELSE rel_list

relpath(path, start) == JoinSlash(relpath_list(path, start))

\* _format_relative_path(path, base_dir)
format_relative_path(path, base_dir) ==
    LET rel_path == relpath(path, base_dir) IN
    IF rel_path = <<".">> THEN <<".", "/">>
    ELSE IF startswith(rel_path, <<".", ".", "/">>) THEN rel_path
    ELSE IF ~startswith(rel_path, <<".", "/">>) THEN <<".", "/">> \o rel_path
    ELSE rel_path

----------------------------------------------------------------------------
(* Directory scans.                                                        *)

DiscoverWidth == 120    \* display length of a description, discovery view
CatalogWidth == 80      \* display length of a description, catalog view

SkillMd == <<"SKILL.md">>
NoDescription == <<"(no description)">>
Ellipsis == <<".", ".", ".">>

\* Every name an entry of a scanned directory can have, and Python's str
\* ordering on them and on the agent names (code points: upper case sorts
\* before lower case).
EntryNames == {"Zed", "bar", "foo", "notes"}

Rank(n) ==
    CASE n = "Zed" -> 1
      [] n = "bar" -> 2
      [] n = "claude" -> 3
      [] n = "foo" -> 4
      [] n = "notes" -> 5
      [] n = "opencode" -> 6
      [] OTHER -> 7

\* sorted() left out: the names in listing order.
unsorted(names) == names

\* sorted(names)
sorted(names) == SortSeq(names, LAMBDA a, b : Rank(a) < Rank(b))

\* os.listdir returns the entries in an order of the system's choosing; these
\* orders of the names are taken: sorted, reversed, and two mixed ones.
ListOrders ==
    {<<"Zed", "bar", "foo", "notes">>, <<"notes", "foo", "bar", "Zed">>,
     <<"foo", "Zed", "notes", "bar">>, <<"bar", "notes", "Zed", "foo">>}

Children(f, d) == {k[Len(k)] : k \in {q \in DOMAIN f : Len(q) = Len(d) + 1 /\ Front(q) = d}}

\* os.listdir(p) succeeds (no PermissionError)
listable(f, p) == isdir(f, p) /\ f[Resolve(f, p)].ok

\* os.listdir(p) raises an OSError that is no PermissionError
listdir_raises(f, p) == listable(f, p) /\ f[Resolve(f, p)].data # <<>>

\* An exception leaving the function, as the last thing it does: nothing
\* after it is printed.
Raise(at) == [tag |-> "raise", at |-> at, skill |-> "", desc |-> <<"OSError">>]
Raised(lines) == lines # <<>> /\ lines[Len(lines)].tag = "raise"

\* The loop over the roots stops at the first one whose listing raises: the
\* roots whose listing raises, and how many roots the loop gets to.
Raising(f, roots) == {i \in 1..Len(roots) : listdir_raises(f, roots[i])}
Reached(f, roots) ==
    IF Raising(f, roots) = {} THEN Len(roots)
    ELSE CHOOSE i \in Raising(f, roots) : \A j \in Raising(f, roots) : i <= j

\* os.listdir(p): the names in p, in the order ord gives them.
listdir(f, p, ord) ==
    SelectSeq(ord, LAMBDA n : n \in Children(f, Resolve(f, p)))

\* [item for item in items if os.path.isdir(os.path.join(p, item))]
dirs_only(f, p, items) == SelectSeq(items, LAMBDA n : isdir(f, join(p, <<n>>)))

\* A printed line: what it says (tag), the path or label it names, the skill
\* and the description it shows.
Line(tag, at, skill, desc) == [tag |-> tag, at |-> at, skill |-> skill, desc |-> desc]

\* bool(fm): a mapping that is not empty
Truthy(fm) == fm.kind = "map" /\ DOMAIN fm.map # {}
Has(fm, k) == fm.kind = "map" /\ k \in DOMAIN fm.map
\* fm.get(k): the value, or the default
Get(fm, k, default) == IF Has(fm, k) THEN fm.map[k] ELSE default

\* discover_skills, lines 105-118: the line printed for one skill directory
discover_line(f, agent_path, skill) ==
    LET skill_path == join(agent_path, <<skill>>)
        skill_md == join(skill_path, SkillMd)
    IN  IF isfile(f, skill_md)
        THEN LET fm == parse_frontmatter(f, skill_md) IN
             IF Truthy(fm) /\ Has(fm, "name") /\ Has(fm, "description")
             THEN IF fm.map["name"] = skill
                  THEN Line("valid", agent_path, skill,
                            slice(replace_newlines(fm.map["description"]), 0, DiscoverWidth))
                  ELSE Line("name_mismatch", agent_path, skill, <<>>)
             ELSE Line("invalid_frontmatter", agent_path, skill, <<>>)
        ELSE Line("no_skill_md", agent_path, skill, <<>>)

\* discover_skills, lines 95-125: the lines printed for one subdirectory
discover_sub(f, dir_path_exp, sub, ord) ==
    LET agent_path == join(dir_path_exp, sub) IN
    IF exists(f, agent_path) /\ isdir(f, agent_path)
    THEN <<Line("found_agent_dir", agent_path, "", <<>>)>> \o
         (IF ~listable(f, agent_path)
          THEN <<Line("permission_denied", agent_path, "", <<>>)>>
          ELSE IF listdir_raises(f, agent_path) THEN <<Raise(agent_path)>>
          ELSE LET skill_dirs == dirs_only(f, agent_path, listdir(f, agent_path, ord))
                   names == sorted(skill_dirs)
               IN  IF skill_dirs # <<>>
                   THEN <<Line("potential_skills", agent_path, "", <<>>)>> \o
                        [i \in 1..Len(names) |-> discover_line(f, agent_path, names[i])]
                   ELSE <<Line("no_skill_dirs", agent_path, "", <<>>)>>)
    ELSE <<Line("no_agent_dir", agent_path, "", <<>>)>>

\* discover_skills(dir_path, agent_subdirs): the lines it prints
discover_skills(f, dir_path, agent_subdirs, ord) ==
    LET dir_path_exp == expanduser(dir_path) IN
    IF ~isdir(f, dir_path_exp)
    THEN <<Line("error_no_directory", dir_path_exp, "", <<>>)>>
    ELSE LET found_any == \E i \in 1..Len(agent_subdirs) :
                              isdir(f, join(dir_path_exp, agent_subdirs[i]))
             roots == [i \in 1..Len(agent_subdirs) |-> join(dir_path_exp, agent_subdirs[i])]
         IN  Flatten([i \in 1..Reached(f, roots) |->
                          discover_sub(f, dir_path_exp, agent_subdirs[i], ord)])
             \o (IF ~found_any /\ Raising(f, roots) = {}
                 THEN <<Line("no_known_agent_dirs", dir_path_exp, "", <<>>)>>
                 ELSE <<>>)

\* the description a simple listing or a candidate shows (lines 162-168,
\* 192-201)
full_description(f, skill_md) ==
    IF isfile(f, skill_md)
    THEN LET fm == parse_frontmatter(f, skill_md) IN
         IF Truthy(fm) /\ Get(fm, "description", <<>>) # <<>>
         THEN replace_newlines(fm.map["description"])
         ELSE NoDescription
    ELSE NoDescription

\* list_skills_simple, lines 152-172: the lines printed for one subdirectory
list_simple_sub(f, dir_path_exp, sub, ord) ==
    LET agent_path == join(dir_path_exp, sub) IN
    IF ~isdir(f, agent_path) THEN <<>>
    ELSE IF ~listable(f, agent_path)
    THEN <<Line("permission_denied", agent_path, "", <<>>)>>
    ELSE IF listdir_raises(f, agent_path) THEN <<Raise(agent_path)>>
    ELSE LET names == sorted(dirs_only(f, agent_path, listdir(f, agent_path, ord))) IN
         [i \in 1..Len(names) |->
             Line("skill", format_relative_path(agent_path, dir_path_exp), names[i],
                  full_description(f, join(join(agent_path, <<names[i]>>), SkillMd)))]

\* list_skills_simple(dir_path, agent_subdirs): the lines it prints
list_skills_simple(f, dir_path, agent_subdirs, ord) ==
    LET dir_path_exp == expanduser(dir_path) IN
    IF ~isdir(f, dir_path_exp)
    THEN <<Line("error_no_directory", dir_path_exp, "", <<>>)>>
    ELSE LET found_any == \E i \in 1..Len(agent_subdirs) :
                              isdir(f, join(dir_path_exp, agent_subdirs[i]))
             roots == [i \in 1..Len(agent_subdirs) |-> join(dir_path_exp, agent_subdirs[i])]
         IN  Flatten([i \in 1..Reached(f, roots) |->
                          list_simple_sub(f, dir_path_exp, agent_subdirs[i], ord)])
             \o (IF ~found_any /\ Raising(f, roots) = {}
                 THEN <<Line("no_known_agent_dirs", dir_path_exp, "", <<>>)>>
                 ELSE <<>>)

\* A candidate record that takes the declared name for the folder name.
candidate_by_declared_name(f, base_dir, search_path, skill) ==
    LET skill_md == join(join(search_path, <<skill>>), SkillMd)
        fm == IF isfile(f, skill_md) THEN parse_frontmatter(f, skill_md) ELSE None
        declared == Get(fm, "name", "")
        shown == IF Truthy(fm) /\ declared # "" THEN declared ELSE skill
    IN  [name |-> shown,
         description |-> full_description(f, skill_md),
         path |-> join(search_path, <<shown>>),
         rel_path |-> format_relative_path(join(search_path, <<shown>>), base_dir),
         folder_name |-> shown]

\* _gather_skill_candidates, lines 191-210: the record of one skill directory
candidate(f, base_dir, search_path, skill) ==
    LET skill_path == join(search_path, <<skill>>)
        skill_md == join(skill_path, SkillMd)
        fm == IF isfile(f, skill_md) THEN parse_frontmatter(f, skill_md) ELSE None
        declared == Get(fm, "name", "")
    IN  [name |-> IF Truthy(fm) /\ declared # "" THEN declared ELSE skill,
         description |-> full_description(f, skill_md),
         path |-> skill_path,
         rel_path |-> format_relative_path(skill_path, base_dir),
         folder_name |-> basename(skill_path)]

\* _gather_skill_candidates, lines 180-210, for one subdirectory: the
\* candidates and the lines printed
gather_sub(f, base_dir, sub, ord) ==
    LET search_path == join(base_dir, sub) IN
    IF ~isdir(f, search_path) THEN [candidates |-> <<>>, lines |-> <<>>]
    ELSE IF ~listable(f, search_path)
    THEN [candidates |-> <<>>,
          lines |-> <<Line("permission_denied", search_path, "", <<>>)>>]
    ELSE IF listdir_raises(f, search_path)
    THEN [candidates |-> <<>>, lines |-> <<Raise(search_path)>>]
    ELSE LET names == sorted(dirs_only(f, search_path, listdir(f, search_path, ord))) IN
         [candidates |-> [i \in 1..Len(names) |-> candidate(f, base_dir, search_path, names[i])],
          lines |-> <<>>]

\* _gather_skill_candidates(base_dir, subdirs)
gather_skill_candidates(f, base_dir, subdirs, ord) ==
    LET roots == [i \in 1..Len(subdirs) |-> join(base_dir, subdirs[i])] IN
    [candidates |-> IF Raising(f, roots) # {} THEN <<>>
                    ELSE Flatten([i \in 1..Len(subdirs) |->
                            gather_sub(f, base_dir, subdirs[i], ord).candidates]),
     lines |-> Flatten([i \in 1..Reached(f, roots) |->
                            gather_sub(f, base_dir, subdirs[i], ord).lines])]

\* The (path -> label) table of list_installed_skills_for_paths, lines
\* 220-227, as the list of its insertions; a later insertion of the same
\* path replaces an earlier one.
KindOrder == <<"user", "project">>

label_entries(cfg) ==
    Flatten([a \in 1..Len(cfg.agents) |->
        Flatten([t \in 1..2 |->
            LET ps == cfg.agent_dirs[cfg.agents[a]][KindOrder[t]] IN
            [i \in 1..Len(ps) |->
                [path |-> expanduser(ps[i]), label |-> <<cfg.agents[a], KindOrder[t]>>]]])])

\* path_to_label.get(p_expanded, p_expanded)
label_of(cfg, p_expanded) ==
    LET es == label_entries(cfg)
        hits == {i \in 1..Len(es) : es[i].path = p_expanded}
    IN  IF hits = {} THEN p_expanded
        ELSE es[CHOOSE i \in hits : \A j \in hits : j <= i].label

\* list_installed_skills_for_paths, lines 244-258: the line for one skill
catalog_line(f, label, p_expanded, skill) ==
    LET skill_md == join(join(p_expanded, <<skill>>), SkillMd) IN
    IF isfile(f, skill_md)
    THEN LET fm == parse_frontmatter(f, skill_md) IN
         IF Truthy(fm)
         THEN LET name == Get(fm, "name", "")
                  desc == Get(fm, "description", <<>>)
                  desc_short == IF desc # <<>>
                                THEN slice(replace_newlines(desc), 0, CatalogWidth) \o Ellipsis
                                ELSE NoDescription
              IN  IF name # "" /\ name = skill
                  THEN Line("valid", label, skill, desc_short)
                  ELSE Line("missing_or_name_mismatch", label, skill, <<>>)
         ELSE Line("invalid_frontmatter", label, skill, <<>>)
    ELSE Line("no_skill_md", label, skill, <<>>)

\* The scan of one path with the missing-root line left out.
catalog_path_silent(f, cfg, p, ord) ==
    LET p_expanded == expanduser(p)
        label == label_of(cfg, p_expanded)
    IN  IF ~listable(f, p_expanded) THEN <<>>
        ELSE LET names == sorted(dirs_only(f, p_expanded, listdir(f, p_expanded, ord)))
             IN  [i \in 1..Len(names) |-> catalog_line(f, label, p_expanded, names[i])]

\* list_installed_skills_for_paths, lines 231-264: the lines for one path
catalog_path(f, cfg, p, ord) ==
    LET p_expanded == expanduser(p)
        label == label_of(cfg, p_expanded)
    IN  IF ~isdir(f, p_expanded) THEN <<Line("missing", label, "", <<>>)>>
        ELSE IF ~listable(f, p_expanded)
        THEN <<Line("permission_denied", label, "", <<>>)>>
        ELSE IF listdir_raises(f, p_expanded) THEN <<Raise(label)>>
        ELSE LET skill_dirs == dirs_only(f, p_expanded, listdir(f, p_expanded, ord))
                 names == sorted(skill_dirs)
             IN  IF skill_dirs # <<>>
                 THEN <<Line("skills_in", label, "", <<>>)>> \o
                      [i \in 1..Len(names) |-> catalog_line(f, label, p_expanded, names[i])]
                 ELSE <<Line("no_skills_under", label, "", <<>>)>>

\* list_installed_skills_for_paths(config, paths): the lines it prints
list_installed_skills_for_paths(f, cfg, paths, ord) ==
    LET any_found == \E i \in 1..Len(paths) :
                        /\ listable(f, expanduser(paths[i]))
                        /\ dirs_only(f, expanduser(paths[i]),
                                     listdir(f, expanduser(paths[i]), ord)) # <<>>
        roots == [i \in 1..Len(paths) |-> expanduser(paths[i])]
    IN  Flatten([i \in 1..Reached(f, roots) |-> catalog_path(f, cfg, paths[i], ord)])
        \o (IF ~any_found /\ Raising(f, roots) = {}
            THEN <<Line("none_discovered", <<>>, "", <<>>)>> ELSE <<>>)

\* The paths of every agent, user then project, first occurrence kept
\* (main, lines 676-685; run_interactive, lines 613-621).
RECURSIVE Dedup(_, _)
Dedup(s, seen) ==
    IF s = <<>> THEN <<>>
    ELSE IF Head(s) \in seen THEN Dedup(Tail(s), seen)
    ELSE <<Head(s)>> \o Dedup(Tail(s), seen \cup {Head(s)})

all_paths(cfg) ==
    Dedup(Flatten([a \in 1..Len(cfg.agents) |->
              cfg.agent_dirs[cfg.agents[a]]["user"]
                  \o cfg.agent_dirs[cfg.agents[a]]["project"]]), {})

----------------------------------------------------------------------------
(* Installer.                                                              *)

\* What the environment does to one call of _copy_skill_tree: nothing; no
\* directory can be created (every os.mkdir that would create one raises
\* PermissionError); the source cannot be listed (copytree fails before it
\* wrote anything); the copy of the entry `at` (a path below the source)
\* fails and the rest is copied.
NoFault == [kind |-> "none", at |-> <<>>]
MkdirFault == [kind |-> "mkdir", at |-> <<>>]
ScandirFault == [kind |-> "scandir", at |-> <<>>]
CopyFault(rel) == [kind |-> "copy", at |-> rel]

Ok(f) == [fs |-> f, err |-> ""]
Err(f, e) == [fs |-> f, err |-> e]

\* os.mkdir(p)
mkdir(f, p, fault) ==
    LET k == Resolve(f, p) IN
    IF k = Bad THEN Err(f, "ENOENT")
    ELSE IF k \in DOMAIN f THEN Err(f, "EEXIST")
    ELSE IF fault.kind = "mkdir" THEN Err(f, "EACCES")
    ELSE Ok(f @@ (k :> DirNode))

\* os.makedirs(name, exist_ok=True): the parents first (a FileExistsError of
\* theirs is swallowed), then mkdir(name), whose OSError is raised unless
\* name is a directory.
RECURSIVE makedirs(_, _, _)
makedirs(f, name, fault) ==
    LET head == IF name = <<>> THEN <<>> ELSE Front(name)
        tail == IF name = <<>> \/ name = <<"/">> THEN "" ELSE Last(name)
        up   == IF head # <<>> /\ tail # "" /\ ~exists(f, head)
                THEN makedirs(f, head, fault)
                ELSE Ok(f)
        f1   == up.fs
    IN  IF up.err \notin {"", "EEXIST"} THEN up
        ELSE IF head # <<>> /\ tail # "" /\ ~exists(f, head) /\ tail = "." THEN Ok(f1)
        ELSE LET m == mkdir(f1, name, fault) IN
             IF m.err # "" /\ ~isdir(f1, name) THEN m ELSE Ok(m.fs)

IsPrefix(a, b) == Len(a) <= Len(b) /\ SubSeq(b, 1, Len(a)) = a

\* The entries below a directory, as paths relative to it.
EntriesBelow(f, d) ==
    {SubSeq(k, Len(d) + 1, Len(k)) : k \in {q \in DOMAIN f : IsPrefix(d, q) /\ q # d}}

\* A copy that takes the immediate entries of src only.
copytree_shallow(f, src, dst, fault) ==
    LET s == Resolve(f, src)
        d == Resolve(f, dst)
        top == {e \in EntriesBelow(f, s) : Len(e) = 1}
    IN  IF ~isdir(f, src) \/ d = Bad \/ d \in DOMAIN f THEN Err(f, "EEXIST")
        ELSE Ok(f @@ [k \in {d} \cup {d \o e : e \in top} |->
                        IF k = d THEN DirNode ELSE f[s \o SubSeq(k, Len(d) + 1, Len(k))]])

\* shutil.copytree(src, dst): lists src, creates dst (which must not exist),
\* copies every entry; an entry whose copy fails is left out, with all below
\* it, the others are still copied and the error is raised at the end.
copytree(f, src, dst, fault) ==
    LET s == Resolve(f, src)
        d == Resolve(f, dst)
    IN  IF ~isdir(f, src) \/ fault.kind = "scandir" THEN Err(f, "EACCES")
        ELSE IF d = Bad THEN Err(f, "ENOENT")
        ELSE IF d \in DOMAIN f THEN Err(f, "EEXIST")
        ELSE LET all == EntriesBelow(f, s)
                 failed == IF fault.kind = "copy" THEN {e \in all : IsPrefix(fault.at, e)}
                           ELSE {}
                 copied == all \ failed
                 new == [k \in {d} \cup {d \o e : e \in copied} |->
                            IF k = d THEN DirNode
                            ELSE f[s \o SubSeq(k, Len(d) + 1, Len(k))]]
             IN  IF failed = {} THEN Ok(f @@ new) ELSE Err(f @@ new, "Error")

Returned(status, path, f, lines) ==
    [status |-> status, path |-> path, fs |-> f, lines |-> lines]

\* _copy_skill_tree with the already-exists test left out.
copy_skill_tree_no_exists_test(f, source, destination_root, fault) ==
    LET destination_root_exp == expanduser(destination_root)
        md == makedirs(f, destination_root_exp, fault)
        destination_path == join(destination_root_exp, <<basename(source)>>)
    IN  IF md.err # "" THEN Returned("raise", destination_path, md.fs, <<>>)
        ELSE IF abspath(destination_path) = abspath(source)
        THEN Returned("same", destination_path, md.fs, <<>>)
        ELSE LET ct == copytree(md.fs, source, destination_path, fault) IN
             IF ct.err # ""
             THEN Returned("error", destination_path, ct.fs,
                           <<Line("failed_to_install", destination_path, "", <<>>)>>)
             ELSE Returned("installed", destination_path, ct.fs, <<>>)

\* _copy_skill_tree with the already-exists test made first.
copy_skill_tree_exists_first(f, source, destination_root, fault) ==
    LET destination_root_exp == expanduser(destination_root)
        md == makedirs(f, destination_root_exp, fault)
        destination_path == join(destination_root_exp, <<basename(source)>>)
    IN  IF md.err # "" THEN Returned("raise", destination_path, md.fs, <<>>)
        ELSE IF exists(md.fs, destination_path)
        THEN Returned("exists", destination_path, md.fs, <<>>)
        ELSE IF abspath(destination_path) = abspath(source)
        THEN Returned("same", destination_path, md.fs, <<>>)
        ELSE LET ct == copytree(md.fs, source, destination_path, fault) IN
             IF ct.err # ""
             THEN Returned("error", destination_path, ct.fs,
                           <<Line("failed_to_install", destination_path, "", <<>>)>>)
             ELSE Returned("installed", destination_path, ct.fs, <<>>)

\* _copy_skill_tree(source, destination_root) on filesystem f.  Status
\* "raise" is an exception that leaves the function.
copy_skill_tree(f, source, destination_root, fault) ==
    LET destination_root_exp == expanduser(destination_root)
        md == makedirs(f, destination_root_exp, fault)
        destination_path == join(destination_root_exp, <<basename(source)>>)
    IN  IF md.err # "" THEN Returned("raise", destination_path, md.fs, <<>>)
        ELSE IF abspath(destination_path) = abspath(source)
        THEN Returned("same", destination_path, md.fs, <<>>)
        ELSE IF exists(md.fs, destination_path)
        THEN Returned("exists", destination_path, md.fs, <<>>)
        ELSE LET ct == copytree(md.fs, source, destination_path, fault) IN
             IF ct.err # ""
             THEN Returned("error", destination_path, ct.fs,
                           <<Line("failed_to_install", destination_path, "", <<>>)>>)
             ELSE Returned("installed", destination_path, ct.fs, <<>>)

\* The loop of install_skill_interactive, lines 561-570, as the steps it
\* takes in order: for every agent and path kind either the note that no
\* path is configured or one step per target.
install_steps(cfg, selected_agents, selected_paths) ==
    Flatten([a \in 1..Len(selected_agents) |->
        Flatten([t \in 1..Len(selected_paths) |->
            LET agent == selected_agents[a]
                path_type == selected_paths[t]
                targets == cfg.agent_dirs[agent][path_type]
            IN  IF targets = <<>>
                THEN <<[kind |-> "none", agent |-> agent, path_type |-> path_type,
                        target |-> <<>>]>>
                ELSE [i \in 1..Len(targets) |->
                        [kind |-> "target", agent |-> agent, path_type |-> path_type,
                         target |-> targets[i]]]])])

----------------------------------------------------------------------------
(* Bounds of the pure-function specifications.                             *)

MaxTokens == 6       \* tokens in a manifest text
MaxPathLen == 2      \* components in a path given to the normaliser

EmptyFS == (<<>> :> DirNode)

Idle == [op |-> "init"]

\* The locals of the interactive flows; answers is the history of what the
\* prompts of the running flow returned.
NoSel == [candidates |-> <<>>, cand |-> <<>>, agents |-> <<>>, kinds |-> <<>>,
          answers |-> <<>>]
NoFlags == [installed_any |-> FALSE, had_targets |-> FALSE]
EmptyConfig == [custom_subdirs |-> <<>>, agents |-> <<>>, agent_dirs |-> <<>>]

NoFlow ==
    /\ config = EmptyConfig
    /\ pc = "idle"
    /\ out = <<>>
    /\ queue = <<>>
    /\ sel = NoSel
    /\ flags = NoFlags
    /\ done = {}
    /\ runs = 0

----------------------------------------------------------------------------
(* Specification of the manifest parser: every manifest file over a small  *)
(* alphabet, then one call of parse_frontmatter on it.                     *)

ManifestPath == <<"/", "m">>

Tokens == {<<"-", "-", "-", NL>>, <<NL>>, <<"name: foo">>, <<"!">>, <<"-">>}

Contents == {Flatten(ts) : ts \in UNION {[1..n -> Tokens] : n \in 0..MaxTokens}}

ManifestNodes ==
    {FileNode(c) : c \in Contents}
        \cup {DeniedFile(<<"-", "-", "-", NL, "name: foo", NL, "-", "-", "-", NL>>), DirNode}

ParseInit ==
    /\ fs \in {EmptyFS} \cup {EmptyFS @@ (<<"m">> :> n) : n \in ManifestNodes}
    /\ call = Idle
    /\ NoFlow

ParseFrontmatter ==
    /\ call.op = "init"
    /\ call' = [op |-> "parse_frontmatter",
                result |-> parse_frontmatter(fs, ManifestPath)]
    /\ UNCHANGED <<fs, config, pc, out, queue, sel, flags, done, runs>>

ParseNext == ParseFrontmatter

SpecParse == ParseInit /\ [][ParseNext]_vars

----------------------------------------------------------------------------
(* Specification of the path normaliser: every (path, base) pair over a    *)
(* small set of components, then one call of _format_relative_path.        *)

PathComps == {"a", "b", "..x", "..", "."}

CompSeqs == UNION {[1..n -> PathComps] : n \in 0..MaxPathLen}

RelPaths == {<<"/">> \o cs : cs \in CompSeqs} \cup (CompSeqs \ {<<>>})

RelInit ==
    /\ fs = EmptyFS
    /\ call \in {[op |-> "init", path |-> p, base_dir |-> b] : p \in RelPaths, b \in RelPaths}
    /\ NoFlow

FormatRelativePath ==
    /\ call.op = "init"
    /\ call' = [op |-> "format_relative_path",
                path |-> call.path, base_dir |-> call.base_dir,
                result |-> format_relative_path(call.path, call.base_dir)]
    /\ UNCHANGED <<fs, config, pc, out, queue, sel, flags, done, runs>>

RelNext == FormatRelativePath

SpecRel == RelInit /\ [][RelNext]_vars

----------------------------------------------------------------------------
(* Configuration and filesystems of the scan and install specifications.   *)

\* config.get("custom_subdirs") or [".opencode/skills", ".claude/skills"]
DefaultSubdirs == << <<".opencode", "skills">>, <<".claude", "skills">> >>
subdirs_of(cfg) == IF cfg.custom_subdirs # <<>> THEN cfg.custom_subdirs ELSE DefaultSubdirs

\* A filesystem from a set of <<location, node>> pairs.
FsOf(S) == [k \in {e[1] : e \in S} |-> (CHOOSE e \in S : e[1] = k)[2]]

BaseTree ==
    {<< <<>>, DirNode >>, << Cwd, DirNode >>, << HomeDir, DirNode >>,
     << Cwd \o <<".opencode">>, DirNode >>, << Cwd \o <<".claude">>, DirNode >>}

R1 == Cwd \o <<".opencode", "skills">>     \* location of the first scan root
R2 == Cwd \o <<".claude", "skills">>       \* location of the second scan root

RECURSIVE JoinNL(_)
JoinNL(ls) ==
    IF ls = <<>> THEN <<>>
    ELSE IF Len(ls) = 1 THEN <<ls[1]>>
    ELSE <<Head(ls), NL>> \o JoinNL(Tail(ls))

\* A manifest whose frontmatter holds the given lines, followed by a body.
Doc(ls) == OpenDelim \o JoinNL(ls) \o CloseDelim \o <<"body", NL>>

NameLine(n) == IF n = "foo" THEN "name: foo" ELSE "name: bar"
OtherName(n) == IF n = "foo" THEN "bar" ELSE "foo"

ManifestTexts(n) ==
    {Doc(<<NameLine(n), "description: d">>),             \* name = folder
     Doc(<<"description: d", NameLine(OtherName(n))>>),  \* name # folder
     Doc(<<NameLine(n)>>),                               \* no description
     Doc(<<"description: d">>),                          \* no name
     Doc(<<"{}">>),                                      \* empty mapping
     Doc(<<"!">>),                                       \* malformed YAML
     <<NameLine(n), NL, "description: d", NL>>}          \* no delimiters
    \cup {Doc(<<NameLine(n), d>>) : d \in DescriptionSyms}  \* every description

\* The ways a skill directory at loc can look.
SkillTrees(loc, n) ==
    {{<<loc, DirNode>>}}
    \cup {{<<loc, DirNode>>, <<loc \o SkillMd, FileNode(t)>>} : t \in ManifestTexts(n)}
    \cup {{<<loc, DirNode>>, <<loc \o SkillMd, DirNode>>},
          {<<loc, DirNode>>,
           <<loc \o SkillMd, DeniedFile(Doc(<<NameLine(n), "description: d">>))>>}}

PlainFile(loc) == {<<loc, FileNode(<<"text">>)>>}
ValidSkill(loc, n) ==
    {<<loc, DirNode>>, <<loc \o SkillMd, FileNode(Doc(<<NameLine(n), "description: d">>))>>}

\* The first scan root: missing, a file, unreadable, or a directory of
\* skill directories and plain files.
ScanRoot1 ==
    {{}, PlainFile(R1), {<<R1, DeniedDir>>}}
    \cup {{<<R1, DirNode>>} \cup foo \cup bar \cup zed \cup notes :
            foo \in SkillTrees(R1 \o <<"foo">>, "foo")
                      \cup {{}, PlainFile(R1 \o <<"foo">>)},
            bar \in {{}, PlainFile(R1 \o <<"bar">>), {<<R1 \o <<"bar">>, DirNode>>},
                     ValidSkill(R1 \o <<"bar">>, "bar")},
            zed \in {{}, PlainFile(R1 \o <<"Zed">>), {<<R1 \o <<"Zed">>, DirNode>>}},
            notes \in {{}, PlainFile(R1 \o <<"notes">>)}}

ScanRoot2 ==
    {{}, {<<R2, DeniedDir>>}, {<<R2, DirNode>>},
     {<<R2, DirNode>>} \cup ValidSkill(R2 \o <<"foo">>, "foo")
                       \cup PlainFile(R2 \o <<"notes">>),
     {<<R2, DirNode>>} \cup ValidSkill(R2 \o <<"bar">>, "foo")
                       \cup {<<R2 \o <<"Zed">>, DirNode>>}}

\* The configuration of the scan specification: both scan roots are also
\* the project roots of the two agents; the user roots are under the home
\* directory.
ScanConfig ==
    [custom_subdirs |-> <<>>,
     agents |-> <<"opencode", "claude">>,
     agent_dirs |->
        [a \in {"opencode", "claude"} |->
            IF a = "opencode"
            THEN [user |-> << <<"~", ".opencode", "skills">> >>,
                  project |-> << <<".opencode", "skills">> >>]
            ELSE [user |-> << <<"~", ".claude", "skills">> >>,
                  project |-> << <<".claude", "skills">> >>]]]

----------------------------------------------------------------------------
(* The scan commands.  Each runs to completion and the process exits.      *)

\* A scan has printed its lines: the process ends, with a traceback when the
\* scan raised.
scan_ends(op, lines) ==
    /\ call' = [op |-> op, result |-> lines]
    /\ out' = lines
    /\ pc' = IF Raised(lines) THEN "raised" ELSE "exit"

listing_ends(paths, lines) ==
    /\ call' = [op |-> "list_installed", paths |-> paths, result |-> lines]
    /\ out' = lines
    /\ pc' = IF Raised(lines) THEN "raised" ELSE "exit"

gather_ends(g) ==
    /\ call' = [op |-> "gather", result |-> g.candidates]
    /\ out' = g.lines
    /\ pc' = IF Raised(g.lines) THEN "raised" ELSE "exit"

\* --dd DIR: discover_skills(DIR, subdirs)
Discover ==
    /\ pc = "idle"
    /\ \E ord \in ListOrders :
         scan_ends("discover_skills",
                   discover_skills(fs, <<"/">> \o Cwd, subdirs_of(config), ord))
    /\ UNCHANGED <<fs, config, queue, sel, flags, done, runs>>

\* interactive "dd": list_skills_simple(cwd, subdirs)
ListSimple ==
    /\ pc = "idle"
    /\ \E ord \in ListOrders :
         scan_ends("list_skills_simple",
                   list_skills_simple(fs, <<"/">> \o Cwd, subdirs_of(config), ord))
    /\ UNCHANGED <<fs, config, queue, sel, flags, done, runs>>

\* --list: list_installed_skills_for_paths(config, every configured path)
ListInstalled ==
    /\ pc = "idle"
    /\ \E ord \in ListOrders :
         listing_ends(all_paths(config),
                      list_installed_skills_for_paths(fs, config, all_paths(config), ord))
    /\ UNCHANGED <<fs, config, queue, sel, flags, done, runs>>

\* _gather_skill_candidates(cwd, subdirs), the first step of the install flow
Gather ==
    /\ pc = "idle"
    /\ \E ord \in ListOrders :
         gather_ends(gather_skill_candidates(fs, <<"/">> \o Cwd, subdirs_of(config), ord))
    /\ UNCHANGED <<fs, config, queue, sel, flags, done, runs>>

ScanInit ==
    /\ fs \in {FsOf(BaseTree \cup r1 \cup r2) : r1 \in ScanRoot1, r2 \in ScanRoot2}
    /\ config = ScanConfig
    /\ pc = "idle"
    /\ call = Idle
    /\ out = <<>>
    /\ queue = <<>>
    /\ sel = NoSel
    /\ flags = NoFlags
    /\ done = {}
    /\ runs = 0

ScanNext == Discover \/ ListSimple \/ ListInstalled \/ Gather

SpecScan == ScanInit /\ [][ScanNext]_vars

\* The scans on filesystems where the listing of a root can also fail with
\* an I/O error.
ScanFaultInit ==
    /\ fs \in {FsOf(BaseTree \cup r1 \cup r2) :
                  r1 \in ScanRoot1 \cup {{<<R1, BrokenDir>>}},
                  r2 \in ScanRoot2 \cup {{<<R2, BrokenDir>>}}}
    /\ config = ScanConfig
    /\ pc = "idle"
    /\ call = Idle
    /\ out = <<>>
    /\ queue = <<>>
    /\ sel = NoSel
    /\ flags = NoFlags
    /\ done = {}
    /\ runs = 0

SpecScanFault == ScanFaultInit /\ [][ScanNext]_vars

----------------------------------------------------------------------------
(* The install command (install_skill_interactive) and the specification   *)
(* of the whole tool: processes run one command each on a filesystem that  *)
(* persists between them.                                                  *)

MaxRuns == 1          \* install and interactive commands started in one behaviour

ChoiceWidth == 80     \* a description longer than this is cut in the menu
ChoiceKeep == 77      \* ... to this many characters plus "..."

\* The menu entry of a candidate (lines 533-535)
choice_of(c) ==
    <<c.name, c.rel_path,
      IF Len(c.description) <= ChoiceWidth THEN c.description
      ELSE slice(c.description, 0, ChoiceKeep) \o Ellipsis>>

\* choices.index(selected): the first entry equal to the selected one
index_of(choices, selected) ==
    CHOOSE i \in 1..Len(choices) :
        /\ choices[i] = selected
        /\ \A j \in 1..(i - 1) : choices[j] # selected

\* sorted(agent_dirs.keys())
sorted_agents(cfg) == sorted(cfg.agents)

\* What a multi-select prompt can return besides a cancellation: the empty
\* list or any list of distinct options.
Picks(options) ==
    {<<>>} \cup {<<o>> : o \in options}
           \cup {q \in {<<o1, o2>> : o1 \in options, o2 \in options} : q[1] # q[2]}

\* A multi-select prompt that returns None.
Cancelled == <<"(cancelled)">>

Range(q) == {q[i] : i \in 1..Len(q)}

\* The faults the environment can inject into an install of the source; a
\* failing copy is that of one immediate entry of the source.
Faults(f, source) ==
    {NoFault, MkdirFault, ScandirFault}
        \cup {CopyFault(e) : e \in {x \in EntriesBelow(f, Resolve(f, source)) : Len(x) = 1}}

\* install_skill_interactive, lines 527-530: with the candidates g gathered,
\* the flow ends (an exception, or nothing to choose from) or reaches the
\* skill prompt; base holds the history of the prompts before it.
gathered(g, base) ==
    /\ call' = [op |-> "gather", result |-> g.candidates]
    /\ IF Raised(g.lines)
       THEN /\ out' = g.lines
            /\ pc' = "raised"
            /\ sel' = base
       ELSE IF g.candidates = <<>>
       THEN /\ out' = g.lines \o <<Line("no_discoverable_skills", <<>>, "", <<>>)>>
            /\ pc' = "exit"
            /\ sel' = base
       ELSE /\ out' = g.lines
            /\ pc' = "prompt_skill"
            /\ sel' = [base EXCEPT !.candidates = g.candidates]

\* install_skill_interactive, lines 525-530: gather the candidates, up to
\* the skill prompt; answered is the history of the prompts before it.
install_begin(answered) ==
    \E ord \in ListOrders :
        gathered(gather_skill_candidates(fs, <<"/">> \o Cwd, subdirs_of(config), ord),
                 [NoSel EXCEPT !.answers = answered])

\* --install (main, lines 689-691)
InstallBegin ==
    /\ pc = "idle"
    /\ runs < MaxRuns
    /\ runs' = runs + 1
    /\ install_begin(<<>>)
    /\ UNCHANGED <<fs, config, queue, flags, done>>

\* --interactive or no arguments (main, lines 663-671): run_interactive up
\* to its command prompt
RunInteractive ==
    /\ pc = "idle"
    /\ runs < MaxRuns
    /\ runs' = runs + 1
    /\ pc' = "prompt_command"
    /\ UNCHANGED <<fs, config, call, out, queue, sel, flags, done>>

Answered(a) == [sel EXCEPT !.answers = Append(@, a)]

\* run_interactive, lines 594-637: the command prompt and what the command
\* does up to its next prompt or its end
PromptCommand ==
    /\ pc = "prompt_command"
    /\ \E cmd \in {"cancelled", "quit", "dd", "list", "install"} :
         IF cmd \in {"cancelled", "quit"}
         THEN /\ pc' = "exit"
              /\ sel' = Answered(cmd)
              /\ UNCHANGED <<call, out>>
         ELSE IF cmd = "dd"
         THEN /\ sel' = Answered("command")
              /\ \E ord \in ListOrders :
                   scan_ends("list_skills_simple",
                             list_skills_simple(fs, <<"/">> \o Cwd, subdirs_of(config), ord))
         ELSE IF cmd = "list"
         THEN /\ pc' = "prompt_list"
              /\ sel' = Answered("command")
              /\ UNCHANGED <<call, out>>
         ELSE install_begin(Append(sel.answers, "command"))
    /\ UNCHANGED <<fs, config, queue, flags, done, runs>>

All == "All"

\* run_interactive, lines 606-633: the agent prompt of "list" and the listing
PromptList ==
    /\ pc = "prompt_list"
    /\ \E choice \in {"cancelled", All} \cup Range(sorted_agents(config)) :
         IF choice = "cancelled"
         THEN /\ pc' = "exit"
              /\ sel' = Answered("cancelled")
              /\ UNCHANGED <<call, out>>
         ELSE LET paths == IF choice = All THEN all_paths(config)
                           ELSE config.agent_dirs[choice]["user"]
                                    \o config.agent_dirs[choice]["project"]
              IN  /\ sel' = Answered("agent")
                  /\ IF paths = <<>>
                     THEN /\ out' = <<Line(IF choice = All THEN "no_agent_paths"
                                             ELSE "no_paths_for_agent",
                                           <<choice>>, "", <<>>)>>
                          /\ pc' = "exit"
                          /\ call' = call
                     ELSE \E ord \in ListOrders :
                            listing_ends(paths,
                                list_installed_skills_for_paths(fs, config, paths, ord))
    /\ UNCHANGED <<fs, config, queue, flags, done, runs>>

\* lines 531-549: the skill prompt; 0 is a cancellation
PromptSkill ==
    /\ pc = "prompt_skill"
    /\ LET choices == [i \in 1..Len(sel.candidates) |-> choice_of(sel.candidates[i])] IN
       \E ans \in 0..Len(choices) :
         IF ans = 0
         THEN /\ pc' = "exit"
              /\ sel' = Answered("cancelled")
              /\ out' = out
         ELSE /\ sel' = [sel EXCEPT !.cand = sel.candidates[index_of(choices, choices[ans])],
                                    !.answers = Append(@, "skill")]
              /\ IF config.agents = <<>>
                 THEN /\ out' = Append(out, Line("no_agent_configurations", <<>>, "", <<>>))
                      /\ pc' = "exit"
                 ELSE /\ pc' = "prompt_agents"
                      /\ out' = out
    /\ UNCHANGED <<fs, config, call, queue, flags, done, runs>>

\* lines 550-553: the agents prompt
PromptAgents ==
    /\ pc = "prompt_agents"
    /\ \E ans \in {Cancelled} \cup Picks(Range(sorted_agents(config))) :
         IF ans = Cancelled \/ ans = <<>>
         THEN /\ pc' = "exit"
              /\ sel' = Answered(IF ans = Cancelled THEN "cancelled" ELSE "empty")
         ELSE /\ sel' = [sel EXCEPT !.agents = ans, !.answers = Append(@, "agents")]
              /\ pc' = "prompt_paths"
    /\ UNCHANGED <<fs, config, call, out, queue, flags, done, runs>>

\* The path kinds prompt with a cancellation taken for the default answer.
PromptPaths_cancel_as_default ==
    /\ pc = "prompt_paths"
    /\ \E ans \in {Cancelled} \cup Picks({"user", "project"}) :
         IF ans = <<>>
         THEN /\ pc' = "exit"
              /\ sel' = Answered("empty")
              /\ UNCHANGED <<queue, flags>>
         ELSE LET kinds == IF ans = Cancelled THEN <<"user">> ELSE ans IN
              /\ sel' = [sel EXCEPT !.kinds = kinds,
                            !.answers = Append(@, IF ans = Cancelled THEN "cancelled"
                                                  ELSE "kinds")]
              /\ queue' = install_steps(config, sel.agents, kinds)
              /\ flags' = NoFlags
              /\ pc' = "installing"
    /\ UNCHANGED <<fs, config, call, out, done, runs>>

\* lines 554-560: the path kinds prompt; a selection starts the loop
PromptPaths ==
    /\ pc = "prompt_paths"
    /\ \E ans \in {Cancelled} \cup Picks({"user", "project"}) :
         IF ans = Cancelled \/ ans = <<>>
         THEN /\ pc' = "exit"
              /\ sel' = Answered(IF ans = Cancelled THEN "cancelled" ELSE "empty")
              /\ UNCHANGED <<queue, flags>>
         ELSE /\ sel' = [sel EXCEPT !.kinds = ans, !.answers = Append(@, "kinds")]
              /\ queue' = install_steps(config, sel.agents, ans)
              /\ flags' = NoFlags
              /\ pc' = "installing"
    /\ UNCHANGED <<fs, config, call, out, done, runs>>

\* lines 561-583: one turn of the loop
InstallStep ==
    /\ pc = "installing"
    /\ queue # <<>>
    /\ LET step == Head(queue) IN
       IF step.kind = "none"
       THEN /\ out' = Append(out, Line("no_configured_paths",
                                      <<step.agent, step.path_type>>, "", <<>>))
            /\ queue' = Tail(queue)
            /\ UNCHANGED <<fs, pc, call, flags, done>>
       ELSE \E fault \in Faults(fs, sel.cand.path) :
            LET r == copy_skill_tree(fs, sel.cand.path, step.target, fault) IN
            /\ call' = [op |-> "copy_skill_tree", source |-> sel.cand.path,
                        root |-> step.target, fault |-> fault,
                        status |-> r.status, path |-> r.path, pre |-> fs,
                        again |-> <<sel.cand.path, step.target>> \in done]
            /\ fs' = r.fs
            /\ done' = IF r.status = "installed"
                       THEN done \cup {<<sel.cand.path, step.target>>} ELSE done
            /\ IF r.status = "raise"
               THEN /\ pc' = "raised"
                    /\ UNCHANGED <<out, queue, flags>>
               ELSE /\ pc' = pc
                    /\ queue' = Tail(queue)
                    /\ flags' = [installed_any |-> flags.installed_any \/ r.status = "installed",
                                 had_targets |-> TRUE]
                    /\ out' = out \o r.lines \o
                         (IF r.status = "installed"
                          THEN <<Line("installed", r.path, sel.cand.name, <<>>)>>
                          ELSE IF r.status \in {"exists", "same"}
                          THEN <<Line("already_installed", r.path, sel.cand.name, <<>>)>>
                          ELSE <<>>)
    /\ UNCHANGED <<config, sel, runs>>

\* lines 584-587: the closing line
InstallEnd ==
    /\ pc = "installing"
    /\ queue = <<>>
    /\ out' = out \o
         (IF ~flags.had_targets THEN <<Line("no_install_targets", <<>>, "", <<>>)>>
          ELSE IF ~flags.installed_any THEN <<Line("no_installations", <<>>, "", <<>>)>>
          ELSE <<>>)
    /\ pc' = "exit"
    /\ UNCHANGED <<fs, config, call, queue, sel, flags, done, runs>>

\* The process has ended (normally or with a traceback); the user starts the
\* tool again.
Restart ==
    /\ pc \in {"exit", "raised"}
    /\ pc' = "idle"
    /\ call' = Idle
    /\ out' = <<>>
    /\ queue' = <<>>
    /\ sel' = NoSel
    /\ flags' = NoFlags
    /\ UNCHANGED <<fs, config, done, runs>>

\* Target roots of the install configurations.
T1 == <<"~", ".claude", "skills">>      \* under the home directory
T2 == <<".", ".opencode", "skills">>    \* the project root the skills live in
T4 == <<"/", "h", "oc">>

T1Loc == HomeDir \o <<".claude", "skills">>
T4Loc == HomeDir \o <<"oc">>

Dirs(cu, cp, ou, op) ==
    [a \in {"opencode", "claude"} |->
        IF a = "claude" THEN [user |-> cu, project |-> cp]
        ELSE [user |-> ou, project |-> op]]

InstallConfigs ==
    {[custom_subdirs |-> <<>>, agents |-> <<"opencode", "claude">>,
      agent_dirs |-> Dirs(<<T1>>, <<T2>>, <<T4>>, <<T2>>)],
     [custom_subdirs |-> << <<".opencode", "skills">> >>, agents |-> <<"opencode", "claude">>,
      agent_dirs |-> Dirs(<<T1, T4>>, <<>>, <<T1>>, <<T2>>)],
     EmptyConfig}

\* A skill with a manifest and a reference file below a subdirectory.
SourceSkill(loc, text) ==
    {<<loc, DirNode>>, <<loc \o SkillMd, FileNode(text)>>,
     <<loc \o <<"ref">>, DirNode>>, <<loc \o <<"ref", "a">>, FileNode(<<"a">>)>>}

SourceTrees ==
    {{<<R1, DirNode>>}
        \cup SourceSkill(R1 \o <<"foo">>, Doc(<<"name: bar", "description: d">>))
        \cup ValidSkill(R1 \o <<"bar">>, "bar"),
     {<<R1, DirNode>>}
        \cup SourceSkill(R1 \o <<"foo">>, Doc(<<"name: foo", "description: d">>))}

OldSkill(loc) == {<<loc, DirNode>>, <<loc \o <<"old">>, FileNode(<<"old">>)>>}

TargetTrees1 ==
    {{}, PlainFile(HomeDir \o <<".claude">>), {<<HomeDir \o <<".claude">>, DirNode>>},
     {<<HomeDir \o <<".claude">>, DirNode>>, <<T1Loc, DirNode>>},
     {<<HomeDir \o <<".claude">>, DirNode>>, <<T1Loc, DirNode>>}
        \cup OldSkill(T1Loc \o <<"foo">>)}

TargetTrees4 ==
    {{}, PlainFile(T4Loc), {<<T4Loc, DirNode>>} \cup PlainFile(T4Loc \o <<"foo">>)}

Init ==
    /\ fs \in {FsOf(BaseTree \cup s \cup t1 \cup t4) :
                  s \in SourceTrees, t1 \in TargetTrees1, t4 \in TargetTrees4}
    /\ config \in InstallConfigs
    /\ pc = "idle"
    /\ call = Idle
    /\ out = <<>>
    /\ queue = <<>>
    /\ sel = NoSel
    /\ flags = NoFlags
    /\ done = {}
    /\ runs = 0

Next ==
    \/ InstallBegin
    \/ RunInteractive
    \/ PromptCommand
    \/ PromptList
    \/ PromptSkill
    \/ PromptAgents
    \/ PromptPaths
    \/ InstallStep
    \/ InstallEnd
    \/ Restart
    \/ Discover
    \/ ListSimple
    \/ ListInstalled

Spec == Init /\ [][Next]_vars

----------------------------------------------------------------------------
(* Properties.                                                             *)

\* What is on disk, stated without the scan's code.
DirNamesAt(f, loc) == {n \in EntryNames : IsDirAt(f, loc \o <<n>>)}
FileNamesAt(f, loc) ==
    {n \in EntryNames : loc \o <<n>> \in DOMAIN f /\ f[loc \o <<n>>].kind = "file"}

\* The elements of a set of names in increasing str order.
Ascending(S) ==
    CHOOSE q \in [1..Cardinality(S) -> S] :
        \A i, j \in 1..Cardinality(S) : i < j => Rank(q[i]) < Rank(q[j])

ScanRoots == [i \in 1..Len(subdirs_of(config)) |-> join(<<"/">> \o Cwd, subdirs_of(config)[i])]
ListedPaths == IF call.op = "list_installed" THEN call.paths ELSE all_paths(config)
CatalogRoots == [i \in 1..Len(ListedPaths) |-> expanduser(ListedPaths[i])]

Missing == "(missing)"

\* What a scan of the roots has to report, root by root: the directory
\* names of every readable root in increasing order and, where markers are
\* asked for, a marker for every root that is no directory.
Expected(f, roots, markers) ==
    Flatten([i \in 1..Len(roots) |->
        IF ~isdir(f, roots[i])
        THEN (IF markers THEN << <<i, Missing>> >> ELSE <<>>)
        ELSE IF ~listable(f, roots[i]) THEN <<>>
        ELSE LET names == Ascending(DirNamesAt(f, Resolve(f, roots[i]))) IN
             [j \in 1..Len(names) |-> <<i, names[j]>>]])

SkillTags == {"valid", "name_mismatch", "missing_or_name_mismatch",
              "invalid_frontmatter", "no_skill_md"}
MarkerTags == {"missing", "no_agent_dir"}

\* The root a line of the discovery view names / a line of the catalog view
\* names by its label.
DiscoverRootOf(l) == CHOOSE i \in 1..Len(ScanRoots) : ScanRoots[i] = l.at
CatalogRootOf(l) ==
    CHOOSE i \in 1..Len(CatalogRoots) : label_of(config, CatalogRoots[i]) = l.at

\* The records of a gather, as <<root, folder name>>.
GatherRecords(rs) ==
    [k \in 1..Len(rs) |->
        <<CHOOSE i \in 1..Len(ScanRoots) : ScanRoots[i] = Front(rs[k].path),
          rs[k].folder_name>>]

\* The skill lines (and, with markers, the missing-root lines) of a view, as
\* <<root, folder name or marker>>.
Reported(lines, RootOf(_), markers) ==
    LET keep == SelectSeq(lines, LAMBDA l :
                    l.tag \in SkillTags \/ (markers /\ l.tag \in MarkerTags))
    IN  [k \in 1..Len(keep) |->
            <<RootOf(keep[k]),
              IF keep[k].tag \in MarkerTags THEN Missing ELSE keep[k].skill>>]

\* C5: a scan yields exactly one record per directory entry of each root, in
\* increasing order of folder name within a root and grouped by root in the
\* order the roots were given; plain files yield no record and no line.
C5_ScanRecords ==
    /\ call.op = "gather" =>
         /\ GatherRecords(call.result) = Expected(fs, ScanRoots, FALSE)
         /\ \A i \in 1..Len(out) : out[i].tag = "permission_denied"
    /\ call.op = "list_installed" =>
         /\ Reported(out, CatalogRootOf, FALSE) = Expected(fs, CatalogRoots, FALSE)
         /\ \A i \in 1..Len(out) :
              out[i].skill # "" =>
                out[i].skill \notin
                    FileNamesAt(fs, Resolve(fs, CatalogRoots[CatalogRootOf(out[i])]))

\* A gather over a root holding at least two directories, out of listing
\* order on disk or not, and at least one plain file, with a second root
\* contributing records after it.
C5_Witness ==
    /\ call.op = "gather"
    /\ Cardinality(DirNamesAt(fs, R1)) >= 2
    /\ FileNamesAt(fs, R1) # {}
    /\ DirNamesAt(fs, R2) # {}
    /\ Len(call.result) >= 3

\* C6: a root that is missing (absent or no directory) gets a missing-root
\* marker at its position, and every other root is still reported in full,
\* in the order the roots were given.
C6_MissingRoot ==
    /\ call.op = "list_installed" =>
         Reported(out, CatalogRootOf, TRUE) = Expected(fs, CatalogRoots, TRUE)
    /\ call.op = "discover_skills" =>
         Reported(out, DiscoverRootOf, TRUE) = Expected(fs, ScanRoots, TRUE)

\* The catalog listing with the first project root missing and skills
\* reported for the root after it.
C6_Witness ==
    /\ call.op = "list_installed"
    /\ R1 \notin DOMAIN fs
    /\ DirNamesAt(fs, R2) # {}
    /\ \E i, j \in 1..Len(out) :
         /\ i < j
         /\ out[i].tag = "missing" /\ out[i].at = <<"opencode", "project">>
         /\ out[j].tag \in SkillTags /\ out[j].at = <<"claude", "project">>

ScanOps == {"discover_skills", "list_skills_simple", "gather", "list_installed"}

\* The roots of the last scan.
RootsOfCall == IF call.op = "list_installed" THEN CatalogRoots ELSE ScanRoots

\* A root that is a directory whose listing fails, for lack of permission or
\* with another I/O error.
ListingFails(f, root) ==
    isdir(f, root) /\ (~f[Resolve(f, root)].ok \/ f[Resolve(f, root)].data # <<>>)

\* Every root whose listing fails has a diagnostic line naming it.
Diagnosed(lines, roots, named(_)) ==
    \A r \in 1..Len(roots) :
        ListingFails(fs, roots[r]) =>
            \E i \in 1..Len(lines) :
                lines[i].tag = "permission_denied" /\ lines[i].at = named(roots[r])

PathOf(root) == root
LabelOf(root) == label_of(config, root)

ScanCompletes ==
    /\ call.op \in ScanOps => (pc = "exit" /\ ~Raised(out))
    /\ call.op = "gather" =>
         /\ GatherRecords(call.result) = Expected(fs, ScanRoots, FALSE)
         /\ Diagnosed(out, ScanRoots, PathOf)
    /\ call.op = "discover_skills" =>
         /\ Reported(out, DiscoverRootOf, TRUE) = Expected(fs, ScanRoots, TRUE)
         /\ Diagnosed(out, ScanRoots, PathOf)
    /\ call.op = "list_skills_simple" => Diagnosed(out, ScanRoots, PathOf)
    /\ call.op = "list_installed" =>
         /\ Reported(out, CatalogRootOf, TRUE) = Expected(fs, CatalogRoots, TRUE)
         /\ Diagnosed(out, CatalogRoots, LabelOf)

\* C11: no exception leaves a scan: a root whose listing fails (permission
\* denied or any other I/O error) gives no records and a diagnostic line, and
\* every other root is still reported, in order.
C11_NoScanException == ScanCompletes

\* The part of C11 the code keeps, on filesystems whose listings fail with
\* PermissionError only: the same statement.
C11_PermissionDeniedOnly ==
    (\A r \in 1..Len(RootsOfCall) : ~listdir_raises(fs, RootsOfCall[r])) => ScanCompletes

\* Every root of the scan that is skipped (no directory) or degraded (its
\* listing fails) has a line naming it.
RootsAccounted(lines, roots, named(_)) ==
    \A r \in 1..Len(roots) :
        (~isdir(fs, roots[r]) \/ ListingFails(fs, roots[r])) =>
            \E i \in 1..Len(lines) :
                /\ lines[i].tag \in MarkerTags \cup {"permission_denied"}
                /\ lines[i].at = named(roots[r])

\* Every step of a finished installation has its line: the agent and path
\* kind without paths, and every target whatever its outcome.
StepsAccounted ==
    (pc = "exit" /\ sel.kinds # <<>>) =>
        LET steps == install_steps(config, sel.agents, sel.kinds) IN
        \A k \in 1..Len(steps) :
            \E i \in 1..Len(out) :
                IF steps[k].kind = "none"
                THEN /\ out[i].tag = "no_configured_paths"
                     /\ out[i].at = <<steps[k].agent, steps[k].path_type>>
                ELSE /\ out[i].tag \in {"installed", "already_installed", "failed_to_install"}
                     /\ out[i].at = expanduser(steps[k].target) \o <<sel.cand.folder_name>>

\* C12: every configured root or install target that is skipped or degraded
\* (missing root, unreadable directory, agent without configured paths,
\* failed copy) has a status line naming it, in every scan and in the
\* installation.
C12_NoSilentDrop ==
    /\ call.op \in {"discover_skills", "list_skills_simple", "gather"} =>
         RootsAccounted(out, ScanRoots, PathOf)
    /\ call.op = "list_installed" => RootsAccounted(out, CatalogRoots, LabelOf)
    /\ StepsAccounted

\* The part of C12 the code keeps: the discovery view, the catalog view and
\* the installation name what they skip; the simple listing and the gather
\* of candidates name only the roots they cannot read.
C12_AsCoded ==
    /\ call.op = "discover_skills" => RootsAccounted(out, ScanRoots, PathOf)
    /\ call.op \in {"list_skills_simple", "gather"} => Diagnosed(out, ScanRoots, PathOf)
    /\ call.op = "list_installed" => RootsAccounted(out, CatalogRoots, LabelOf)
    /\ StepsAccounted

\* The Valid status of the data model: SKILL.md is a file whose frontmatter
\* parses to a mapping that holds name and description, with name equal to
\* the folder name.
IsValid(f, root, skill) ==
    LET skill_md == join(join(root, <<skill>>), SkillMd)
        fm == parse_frontmatter(f, skill_md)
    IN  /\ isfile(f, skill_md)
        /\ fm.kind = "map"
        /\ {"name", "description"} \subseteq DOMAIN fm.map
        /\ fm.map["name"] = skill

\* SKILL.md parses to a mapping that lacks name or description.
LacksKey(f, root, skill) ==
    LET skill_md == join(join(root, <<skill>>), SkillMd)
        fm == parse_frontmatter(f, skill_md)
    IN  /\ isfile(f, skill_md)
        /\ fm.kind = "map"
        /\ ~({"name", "description"} \subseteq DOMAIN fm.map)

ValidExactly(lines, roots, RootOf(_)) ==
    \A i \in 1..Len(lines) :
        lines[i].tag \in SkillTags =>
            LET root == roots[RootOf(lines[i])] IN
            /\ lines[i].tag = "valid" <=> IsValid(fs, root, lines[i].skill)
            /\ LacksKey(fs, root, lines[i].skill) =>
                 lines[i].tag \in {"invalid_frontmatter", "missing_or_name_mismatch"}

\* C7: in the discovery view and in the catalog view a skill directory is
\* shown as Valid exactly when its manifest exists, parses to a mapping with
\* both name and description, and name is the folder name; a manifest that
\* lacks one of the two keys is shown as invalid or missing frontmatter.
C7_ValidExactly ==
    /\ call.op = "discover_skills" => ValidExactly(out, ScanRoots, DiscoverRootOf)
    /\ call.op = "list_installed" => ValidExactly(out, CatalogRoots, CatalogRootOf)

\* The part of C7 the discovery view alone is held to.
C7_DiscoveryView ==
    call.op = "discover_skills" => ValidExactly(out, ScanRoots, DiscoverRootOf)

\* The rules of relativize, read off the component list of the relative
\* path: the base itself; a path that walks upward out of the base (its
\* first component is the parent reference); any other path.
RelRules(path, base_dir, result, upward(_)) ==
    LET rl == relpath_list(path, base_dir) IN
    IF abspath(path) = abspath(base_dir) THEN result = <<".", "/">>
    ELSE IF upward(rl) THEN result = JoinSlash(rl)
    ELSE result = <<".", "/">> \o JoinSlash(rl)

WalksUp(rl) == rl[1] = ".."
WalksUpBelowParent(rl) == rl[1] = ".." /\ Len(rl) > 1

\* C9: relativize gives "./" for the base itself, returns a result that
\* walks upward out of the base unmodified (the parent of the base
\* included), and gives every other result exactly one "./" prefix.
C9_Relativize ==
    call.op = "format_relative_path" =>
        RelRules(call.path, call.base_dir, call.result, WalksUp)

\* What the code does: the parent of the base itself is given the "./"
\* prefix; only results that continue after the parent reference are
\* returned unmodified.
C9_AsCoded ==
    call.op = "format_relative_path" =>
        RelRules(call.path, call.base_dir, call.result, WalksUpBelowParent)

\* The declarative reading of the manifest format: the text opens with the
\* delimiter line at position 0, a closing delimiter line follows, and the
\* text strictly between the opening and the first closing delimiter parses
\* to a mapping.
HasFrontmatter(content) ==
    /\ Len(content) >= OpenLen
    /\ \A i \in 1..OpenLen : content[i] = OpenDelim[i]
    /\ \E e \in OpenLen..Len(content) :
         /\ e + Len(CloseDelim) <= Len(content)
         /\ \A i \in 1..Len(CloseDelim) : content[e + i] = CloseDelim[i]
         /\ \A e2 \in OpenLen..(e - 1) :
              \E i \in 1..Len(CloseDelim) :
                 e2 + i > Len(content) \/ content[e2 + i] # CloseDelim[i]
         /\ yaml_safe_load(SubSeq(content, OpenLen + 1, e)).kind = "map"

Readable(f, p) == p \in DOMAIN f /\ f[p].kind = "file" /\ f[p].ok

\* C10: parse_frontmatter returns a mapping only for a readable file that
\* opens with the delimiter line at position 0, has a closing delimiter line
\* after it and a mapping between the two; in every other case it returns
\* "no manifest", and it never raises.
C10_ParseFrontmatter ==
    call.op = "parse_frontmatter" =>
        /\ call.result.kind \in {"map", "none"}
        /\ call.result.kind = "map" <=>
             (Readable(fs, <<"m">>) /\ HasFrontmatter(fs[<<"m">>].data))

\* A manifest that parses, and has text before the closing delimiter that
\* is itself a "---" line.
C10_Witness ==
    /\ call.op = "parse_frontmatter"
    /\ call.result.kind = "map"
    /\ "name" \in DOMAIN call.result.map
    /\ startswith(fs[<<"m">>].data, OpenDelim \o <<"-", "-", "-", NL>>)

----------------------------------------------------------------------------
(* Properties of the installer, on the last call of _copy_skill_tree.      *)

Copied == call.op = "copy_skill_tree"

\* D/basename(S), from the inputs of the call.
DestPath == expanduser(call.root) \o <<Last(call.source)>>
DestLoc == abspath(DestPath)
SourceLoc == abspath(call.source)

SameLocation == DestLoc = SourceLoc
DestExisted == DestLoc \in DOMAIN call.pre

\* The entries at and below a location.
TreeAt(f, loc) == {k \in DOMAIN f : IsPrefix(loc, k)}

\* The tree at dst in g is the tree at src in f, entry for entry.
SameTree(f, src, g, dst) ==
    /\ {SubSeq(k, Len(src) + 1, Len(k)) : k \in TreeAt(f, src)}
         = {SubSeq(k, Len(dst) + 1, Len(k)) : k \in TreeAt(g, dst)}
    /\ \A k \in TreeAt(f, src) : g[dst \o SubSeq(k, Len(src) + 1, Len(k))] = f[k]

\* Every location on the way to the destination root that exists is a
\* directory, so the root exists or can be created.
RootUsable ==
    LET r == abspath(expanduser(call.root)) IN
    \A n \in 0..Len(r) :
        SubSeq(r, 1, n) \in DOMAIN call.pre => call.pre[SubSeq(r, 1, n)].kind = "dir"

\* C1: when D/basename(S) exists and is not S itself, install returns
\* "exists" with that path and nothing at or below D/basename(S) is created,
\* changed or removed.
C1_ExistingTargetUntouched ==
    (Copied /\ DestExisted /\ ~SameLocation) =>
        /\ call.status = "exists"
        /\ call.path = DestPath
        /\ TreeAt(fs, DestLoc) = TreeAt(call.pre, DestLoc)
        /\ \A k \in TreeAt(call.pre, DestLoc) : fs[k] = call.pre[k]

\* An install onto a target that holds an older skill of the same name, with
\* a failing copy injected.
C1_Witness ==
    /\ Copied /\ DestExisted /\ ~SameLocation
    /\ DestLoc \o <<"old">> \in DOMAIN fs
    /\ call.fault.kind = "copy"
    /\ call.status = "exists"

\* C2: with no I/O failure (no fault injected, the destination root usable)
\* the install of a fresh target copies the whole source tree and returns
\* "installed"; every install of a pair that an earlier install returned
\* "installed" for returns "exists" and changes nothing.
C2_InstallIdempotent ==
    /\ (Copied /\ ~DestExisted /\ ~SameLocation
            /\ call.fault = NoFault /\ RootUsable) =>
         /\ call.status = "installed"
         /\ SameTree(call.pre, SourceLoc, fs, DestLoc)
         /\ \A k \in DOMAIN call.pre : k \in DOMAIN fs /\ fs[k] = call.pre[k]
    /\ (Copied /\ call.status = "installed") =>
         /\ ~DestExisted
         /\ SameTree(call.pre, SourceLoc, fs, DestLoc)
    /\ (Copied /\ call.again) =>
         /\ call.status = "exists"
         /\ fs = call.pre

\* The second install of a pair whose first install copied the tree.
C2_Witness ==
    /\ Copied /\ call.again
    /\ call.status = "exists"
    /\ SameTree(fs, SourceLoc, fs, DestLoc)
    /\ DestLoc \o <<"ref", "a">> \in DOMAIN fs

\* C15: a destination D/basename(S) that install creates holds a complete
\* copy of S: an install that returns "installed" has copied the whole tree,
\* and an install that returns "error" leaves nothing at D/basename(S), so
\* that a later install of the pair copies again.  (No initial target holds
\* a "ref" directory: a destination with one was created by an install.)
C15_CreatedIsComplete ==
    /\ (Copied /\ call.status = "installed") => SameTree(call.pre, SourceLoc, fs, DestLoc)
    /\ (Copied /\ call.status = "error") => TreeAt(fs, DestLoc) = {}
    /\ (Copied /\ call.status = "exists" /\ IsDirAt(fs, DestLoc \o <<"ref">>)) =>
         SameTree(fs, SourceLoc, fs, DestLoc)

\* C3: when D/basename(S) is the location of S itself, install returns
\* "same" (never "exists") and copies nothing.
C3_SameLocation ==
    (Copied /\ SameLocation) =>
        /\ call.status = "same"
        /\ fs = call.pre

\* An install into the root the skill lives in, spelled differently from the
\* source path, whatever fault is injected.
C3_Witness ==
    /\ Copied /\ SameLocation
    /\ DestPath # call.source
    /\ call.fault # NoFault
    /\ call.status = "same"

\* The outcome lines of the install loop, as the paths they name.
OutcomeTags == {"installed", "already_installed", "failed_to_install"}
Outcomes(lines) ==
    LET keep == SelectSeq(lines, LAMBDA l : l.tag \in OutcomeTags) IN
    [i \in 1..Len(keep) |-> keep[i].at]

\* The targets of the chosen agents and path kinds, in order.
ChosenTargets ==
    LET steps == SelectSeq(install_steps(config, sel.agents, sel.kinds),
                           LAMBDA st : st.kind = "target")
    IN  [i \in 1..Len(steps) |-> expanduser(steps[i].target) \o <<sel.cand.folder_name>>]

\* C4: in a multi-target installation no failure at one target leaves the
\* flow as an exception, every call returns one of the four outcomes, and
\* when the flow ends every target has been attempted, in order.
C4_TargetsIndependent ==
    /\ pc # "raised"
    /\ Copied => call.status \in {"installed", "exists", "same", "error"}
    /\ (pc = "exit" /\ sel.kinds # <<>>) => Outcomes(out) = ChosenTargets

\* The part of C4 the code keeps: a flow that ends without an exception has
\* attempted every target, in order, and a failed copy stops nothing.
C4_WhenNoException ==
    (pc = "exit" /\ sel.kinds # <<>>) => Outcomes(out) = ChosenTargets

\* The description a manifest declares, when it declares one.
Declares(f, skill_path) ==
    LET fm == parse_frontmatter(f, skill_path \o SkillMd) IN
    /\ isfile(f, skill_path \o SkillMd)
    /\ fm.kind = "map"
    /\ "description" \in DOMAIN fm.map
    /\ fm.map["description"] # <<>>
Declared(f, skill_path) == parse_frontmatter(f, skill_path \o SkillMd).map["description"]

\* A text on one line: every newline is a space.
OneLine(d) == [i \in 1..Len(d) |-> IF d[i] = NL THEN " " ELSE d[i]]

Cut(d, w) == SubSeq(d, 1, IF Len(d) > w THEN w ELSE Len(d))

\* A description as a list shows it: on one line, cut to the display length,
\* with the ellipsis marker exactly when something was cut off.
Rendered(d, w) ==
    IF Len(d) > w THEN Cut(OneLine(d), w) \o Ellipsis ELSE OneLine(d)

\* The lines of valid skills of a view show desc_of(description).
Shows(lines, roots, RootOf(_), desc_of(_)) ==
    \A i \in 1..Len(lines) :
        LET skill_path == roots[RootOf(lines[i])] \o <<lines[i].skill>> IN
        (lines[i].tag = "valid" /\ Declares(fs, skill_path)) =>
            lines[i].desc = desc_of(Declared(fs, skill_path))

\* The description on every candidate record is the whole declared text.
RecordsKeepDescription ==
    call.op = "gather" =>
        \A i \in 1..Len(call.result) :
            Declares(fs, call.result[i].path) =>
                call.result[i].description = OneLine(Declared(fs, call.result[i].path))

RenderedDiscovery(d) == Rendered(d, DiscoverWidth)
RenderedCatalog(d) == Rendered(d, CatalogWidth)

\* C14: a list shows a description with its newlines replaced by spaces and
\* cut to the display length of the view (120 in the discovery view, 80 in
\* the catalog view), followed by the ellipsis marker when, and only when,
\* it was cut; the description on a candidate record is not cut.
C14_DescriptionRendering ==
    /\ call.op = "discover_skills" => Shows(out, ScanRoots, DiscoverRootOf, RenderedDiscovery)
    /\ call.op = "list_installed" => Shows(out, CatalogRoots, CatalogRootOf, RenderedCatalog)
    /\ RecordsKeepDescription

CutDiscovery(d) == Cut(OneLine(d), DiscoverWidth)
CutCatalogMarked(d) == Cut(OneLine(d), CatalogWidth) \o Ellipsis

\* What the code does: the discovery view cuts without ever marking it, the
\* catalog view cuts and always adds the marker, cut or not; the record keeps
\* the whole text.
C14_AsCoded ==
    /\ call.op = "discover_skills" => Shows(out, ScanRoots, DiscoverRootOf, CutDiscovery)
    /\ call.op = "list_installed" => Shows(out, CatalogRoots, CatalogRootOf, CutCatalogMarked)
    /\ RecordsKeepDescription

PromptStates ==
    {"prompt_command", "prompt_list", "prompt_skill", "prompt_agents", "prompt_paths"}

\* The last prompt of the flow returned "cancelled".
LastCancelled(answers) == answers # <<>> /\ Last(answers) = "cancelled"

\* The three prompts of the installation returned a selection, in order.
InstallAnswered(answers) ==
    /\ Len(answers) >= 3
    /\ SubSeq(answers, Len(answers) - 2, Len(answers)) = <<"skill", "agents", "kinds">>

\* C13: a prompt of the interactive flows that returns "cancelled" ends the
\* flow at once, without an exception and without any later step (nothing is
\* printed, queued or written after it); the filesystem changes only in the
\* install loop, after the skill, agents and path kinds prompts each
\* returned a selection; and while a prompt waits no install step is pending
\* and the step that answers it writes nothing.
C13_CancelEndsFlow ==
    [][ /\ pc \in PromptStates => (queue = <<>> /\ fs' = fs)
        /\ (Len(sel'.answers) > Len(sel.answers) /\ LastCancelled(sel'.answers)) =>
              /\ pc \in PromptStates
              /\ pc' = "exit"
              /\ fs' = fs /\ out' = out /\ call' = call /\ queue' = queue
        /\ LastCancelled(sel.answers) => (pc = "exit" /\ pc' = "idle")
        /\ fs' # fs => (pc = "installing" /\ InstallAnswered(sel.answers))
      ]_vars

\* The interactive flow cancelled at the path kinds prompt, after a skill
\* and agents were chosen.
C13_Witness ==
    /\ pc = "exit"
    /\ sel.answers = <<"command", "skill", "agents", "cancelled">>
    /\ sel.agents # <<>>
    /\ sel.kinds = <<>>

\* C8: the folder name of a record is the name of the directory on disk,
\* also when the manifest declares another name: a well-formed manifest with
\* another name is shown as a name mismatch under the folder name, and the
\* installed directory is named after the folder, not after the declared
\* name.
C8_FolderNameIsIdentity ==
    /\ call.op = "gather" =>
         /\ \A i \in 1..Len(call.result) :
               LET c == call.result[i] IN
               /\ c.folder_name = Last(c.path)
               /\ IsDirAt(fs, abspath(c.path))
               /\ c.path = ScanRoots[CHOOSE r \in 1..Len(ScanRoots) :
                                        ScanRoots[r] = Front(c.path)] \o <<c.folder_name>>
         /\ \A r \in 1..Len(ScanRoots) :
               (isdir(fs, ScanRoots[r]) /\ listable(fs, ScanRoots[r])) =>
                  \A d \in DirNamesAt(fs, Resolve(fs, ScanRoots[r])) :
                     \E i \in 1..Len(call.result) :
                        /\ call.result[i].path = ScanRoots[r] \o <<d>>
                        /\ call.result[i].folder_name = d
    /\ call.op = "discover_skills" =>
         \A i \in 1..Len(out) :
            out[i].tag \in SkillTags =>
               /\ out[i].skill \in DirNamesAt(fs, abspath(out[i].at))
               /\ LET fm == parse_frontmatter(fs, out[i].at \o <<out[i].skill>> \o SkillMd) IN
                  (fm.kind = "map" /\ {"name", "description"} \subseteq DOMAIN fm.map
                      /\ fm.map["name"] # out[i].skill)
                  => out[i].tag = "name_mismatch"
    /\ Copied =>
         /\ call.path = expanduser(call.root) \o <<sel.cand.folder_name>>
         /\ IsDirAt(call.pre, abspath(call.source))
         /\ call.status = "installed" =>
              /\ IsDirAt(fs, abspath(call.path))
              /\ \A k \in DOMAIN fs \ DOMAIN call.pre :
                    IsPrefix(k, abspath(call.path)) \/ IsPrefix(abspath(call.path), k)

\* A skill whose manifest declares another name than its folder, installed.
C8_Witness ==
    /\ Copied
    /\ call.status = "installed"
    /\ sel.cand.name # sel.cand.folder_name
    /\ Last(abspath(call.path)) = sel.cand.folder_name

====
